---- MODULE Spec2Model ----
(***************************************************************************)
(* The two timer-triggered cleanup functions of the repository:            *)
(*   CleanUpFunctions/BlobCleanupFunction/__init__.py      (blob job)      *)
(*   CleanUpFunctions/DatabaseCleanupFunction/__init__.py  (database job)  *)
(* Each job is a sequential script; one action models one step of main(),  *)
(* and every call to a collaborator (storage, identity, ODBC driver) that  *)
(* does I/O either returns or throws, chosen by the environment.           *)
(***************************************************************************)
EXTENDS Integers, Sequences, FiniteSets

(* ------------------------------ bounds -------------------------------- *)
\* Time is counted in ticks; a day is TicksPerDay ticks, so that ages of
\* less than a whole day exist.
TicksPerDay == 2
\* Blobs were last modified at most MaxAge ticks before the first run starts.
MaxAge == 3
\* The clock advances by at most MaxElapsed ticks over the whole behaviour.
MaxElapsed == 1
\* Timer invocations of the blob job in one behaviour.
MaxRuns == 2
\* Rows of a table are identified by their age in ticks, 0..MaxRowAge.
MaxRowAge == 3
\* The account's layout: ContainerBlobs[c] are the blobs of container c.
ContainerBlobs == <<{1, 2}, {3}>>

(* --------------------------- program constants ------------------------ *)
\* os.environ.get("RETENTION_DAYS", "90")
DefaultRetention == "90"

Now0 == MaxAge
MaxNow == Now0 + MaxElapsed
Containers == DOMAIN ContainerBlobs
Blobs == UNION {ContainerBlobs[c] : c \in Containers}
\* Blob b lives in container ContainerOf(b).
ContainerOf(b) == CHOOSE c \in Containers : b \in ContainerBlobs[c]
Tiers == {"Archive", "Hot"}
\* Values the RETENTION_DAYS setting takes when it is set.
RetentionSettings == {"0", "1", "abc"}
\* Values a required setting takes when it is set.
NameSettings == {"", "name"}
RowAges == 0..MaxRowAge
\* cleanup_queries: the table and the timestamp column of each DELETE.
cleanup_queries ==
    <<[table |-> "Logs", column |-> "CreatedDate"],
      [table |-> "AuditTrail", column |-> "Timestamp"]>>
TableNames == {cleanup_queries[i].table : i \in DOMAIN cleanup_queries}

VARIABLES
    job,            \* which function the timer triggers: "blob" or "db"
    environ,        \* os.environ: a function from the names that are set
    pc,             \* position in main()
    run,            \* number of the current invocation
    lastResult,     \* how the previous invocation ended: "none", "done", "raised"
    raised,         \* "none", or the kind of error main() raised
    used,           \* collaborator calls made so far in this invocation, in order
    retention_days,
    now,            \* the wall clock (ticks)
    (* ---- storage account ---- *)
    meta,           \* blob -> [tier, last_modified] as the listing reports it
    store,          \* blobs present in the account
    (* ---- blob job locals ---- *)
    containers, ci, blobs, bi,
    processed_count, deleted_count, error_count,
    ageLog,         \* blob -> age_days logged in this run (-1: not processed)
    deleteLog,      \* blob -> outcome of the delete call of this run
    listFailed,     \* containers whose blob listing failed in this run
    (* ---- database ---- *)
    exists,         \* table -> whether INFORMATION_SCHEMA.TABLES lists it
    rows,           \* table -> row age -> "absent", "live", "pending" (deleted
                    \* in the open transaction) or "deleted" (committed)
    (* ---- database job locals ---- *)
    conn,           \* "none", or how the connection was made: "msi", "token"
    ti,             \* index into cleanup_queries
    total_deleted,
    executed        \* cursor.execute calls against the target tables:
                    \* <<table, kind, outcome>>, outcome "ok" or "error"

envVars == <<job, environ>>
ctlVars == <<pc, run, lastResult, raised, used, retention_days, now>>
accountVars == <<meta, store>>
blobLocals == <<containers, ci, blobs, bi, processed_count, deleted_count,
                error_count, ageLog, deleteLog, listFailed>>
dbVars == <<exists, rows>>
dbLocals == <<conn, ti, total_deleted, executed>>
vars == <<envVars, ctlVars, accountVars, blobLocals, dbVars, dbLocals>>

(* ------------------------------ helpers ------------------------------- *)
\* os.environ.get(k, default)
EnvGet(k, default) == IF k \in DOMAIN environ THEN environ[k] ELSE default
\* Configured, were the check `is None` instead of `not`: an empty value passes.
ConfiguredWhenSet(k) == k \in DOMAIN environ
\* `not os.environ.get(k)` is false: the value is set and not empty.
Configured(k) == k \in DOMAIN environ /\ environ[k] # ""
\* int(s): the integer a decimal string denotes; raises ValueError otherwise.
IsInt(s) == s \in {"0", "1", "2", "90"}
IntOf(s) == CASE s = "0" -> 0 [] s = "1" -> 1 [] s = "2" -> 2 [] s = "90" -> 90
\* AgeDays, were a started day counted as a whole one.
AgeDaysRoundedUp(t, last_modified) ==
    (t - last_modified + TicksPerDay - 1) \div TicksPerDay
\* (t - last_modified).days: timedelta.days is the floor of the difference.
AgeDays(t, last_modified) == (t - last_modified) \div TicksPerDay
\* ShouldDelete, were the comparison >= instead of >.
ShouldDeleteAtLeast(tier, age_days, retention) ==
    tier = "Archive" /\ age_days >= retention
\* blob.blob_tier == 'Archive' and age_days > retention_days
ShouldDelete(tier, age_days, retention) == tier = "Archive" /\ age_days > retention
\* The elements of a finite set of numbers in increasing order.
SetToSeq(S) ==
    CHOOSE s \in [1..Cardinality(S) -> S] :
        \A i, j \in 1..Cardinality(S) : i < j => s[i] < s[j]
NoAge == -1
\* The locals of main() before it has assigned them.
FreshLocals ==
    [containers |-> <<>>, ci |-> 0, blobs |-> <<>>, bi |-> 0,
     processed_count |-> 0, deleted_count |-> 0, error_count |-> 0,
     ageLog |-> [b \in Blobs |-> NoAge], deleteLog |-> [b \in Blobs |-> "none"],
     listFailed |-> {}]

(* ------------------------------- Init --------------------------------- *)
InitBlob ==
    /\ job = "blob"
    /\ \E names \in SUBSET {"STORAGE_ACCOUNT_NAME", "RETENTION_DAYS"} :
         environ \in [names -> NameSettings \cup RetentionSettings]
    /\ \A k \in DOMAIN environ :
         environ[k] \in (IF k = "RETENTION_DAYS" THEN RetentionSettings ELSE NameSettings)
    /\ meta \in [Blobs -> [tier : Tiers, last_modified : 0..Now0]]
    /\ store = Blobs

InitDb ==
    /\ job = "db"
    /\ \E names \in SUBSET {"SQL_SERVER", "SQL_DATABASE", "RETENTION_DAYS"} :
         environ \in [names -> NameSettings \cup RetentionSettings]
    /\ \A k \in DOMAIN environ :
         environ[k] \in (IF k = "RETENTION_DAYS" THEN RetentionSettings ELSE NameSettings)
    /\ exists \in [TableNames -> BOOLEAN]
    /\ rows \in [TableNames -> [RowAges -> {"absent", "live"}]]
    /\ \A t \in TableNames : ~exists[t] => \A a \in RowAges : rows[t][a] = "absent"

Init ==
    /\ \/ /\ InitBlob
          /\ exists = [t \in TableNames |-> FALSE]
          /\ rows = [t \in TableNames |-> [a \in RowAges |-> "absent"]]
       \/ /\ InitDb
          /\ meta = [b \in Blobs |-> [tier |-> "Hot", last_modified |-> Now0]]
          /\ store = {}
    /\ conn = "none" /\ ti = 0 /\ total_deleted = 0 /\ executed = {}
    /\ pc = "start" /\ run = 1 /\ lastResult = "none" /\ raised = "none" /\ used = <<>>
    /\ retention_days = 0 /\ now = Now0
    /\ containers = FreshLocals.containers /\ ci = FreshLocals.ci
    /\ blobs = FreshLocals.blobs /\ bi = FreshLocals.bi
    /\ processed_count = FreshLocals.processed_count
    /\ deleted_count = FreshLocals.deleted_count
    /\ error_count = FreshLocals.error_count
    /\ ageLog = FreshLocals.ageLog /\ deleteLog = FreshLocals.deleteLog
    /\ listFailed = FreshLocals.listFailed

(* ------------------------------ blob job ------------------------------ *)
\* The position after the blob at index i of the current listing: the next
\* blob, else the next container, else the summary.
AfterBlob(i) ==
    IF i < Len(blobs)
    THEN bi' = i + 1 /\ pc' = "blob" /\ UNCHANGED <<ci, blobs>>
    ELSE /\ ci' = ci + 1 /\ blobs' = <<>> /\ bi' = 0
         /\ pc' = IF ci < Len(containers) THEN "container" ELSE "summary"

Raise(kind) == pc' = "raised" /\ raised' = kind

\* Lines 17-22: int() of the retention setting, then the account name check.
BlobConfigError ==
    /\ job = "blob" /\ pc = "start"
    /\ \/ ~IsInt(EnvGet("RETENTION_DAYS", DefaultRetention))
       \/ ~Configured("STORAGE_ACCOUNT_NAME")
    /\ Raise("ValueError")
    /\ UNCHANGED <<envVars, run, lastResult, used, retention_days, now, accountVars, blobLocals, dbVars, dbLocals>>

\* Lines 17-33: configuration read, credential and client constructed.
BlobConfigOk ==
    /\ job = "blob" /\ pc = "start"
    /\ IsInt(EnvGet("RETENTION_DAYS", DefaultRetention))
    /\ Configured("STORAGE_ACCOUNT_NAME")
    /\ retention_days' = IntOf(EnvGet("RETENTION_DAYS", DefaultRetention))
    /\ used' = used \o <<"DefaultAzureCredential", "BlobServiceClient">>
    /\ pc' = "account"
    /\ UNCHANGED <<envVars, run, lastResult, raised, now, accountVars, blobLocals, dbVars, dbLocals>>

\* Lines 36-38.
BlobAccountOk ==
    /\ job = "blob" /\ pc = "account"
    /\ used' = Append(used, "get_account_information")
    /\ pc' = "list_containers"
    /\ UNCHANGED <<envVars, run, lastResult, raised, retention_days, now, accountVars, blobLocals, dbVars, dbLocals>>

\* Lines 39-41 and 108-111.
BlobAccountFail ==
    /\ job = "blob" /\ pc = "account"
    /\ used' = Append(used, "get_account_information")
    /\ Raise("Exception")
    /\ UNCHANGED <<envVars, run, lastResult, retention_days, now, accountVars, blobLocals, dbVars, dbLocals>>

\* Lines 44-54: the container list and the three counters.
BlobListContainersOk ==
    /\ job = "blob" /\ pc = "list_containers"
    /\ used' = Append(used, "list_containers")
    /\ containers' = SetToSeq(Containers)
    /\ ci' = 1
    /\ processed_count' = 0 /\ deleted_count' = 0 /\ error_count' = 0
    /\ pc' = IF Containers = {} THEN "summary" ELSE "container"
    /\ UNCHANGED <<envVars, run, lastResult, raised, retention_days, now, accountVars,
                   blobs, bi, ageLog, deleteLog, listFailed, dbVars, dbLocals>>

\* Lines 48-50 and 108-111.
BlobListContainersFail ==
    /\ job = "blob" /\ pc = "list_containers"
    /\ used' = Append(used, "list_containers")
    /\ Raise("Exception")
    /\ UNCHANGED <<envVars, run, lastResult, retention_days, now, accountVars, blobLocals, dbVars, dbLocals>>

\* Lines 57-64: the blobs of container containers[ci].  The listing names
\* the blobs present and may still name blobs of the container whose
\* deletion has already been accepted.
BlobListBlobsOk ==
    /\ job = "blob" /\ pc = "container"
    /\ LET c == containers[ci]
           present == {b \in store : ContainerOf(b) = c}
           goneBlobs == {b \in Blobs \ store : ContainerOf(b) = c}
       IN \E stale \in SUBSET goneBlobs :
            LET listing == SetToSeq(present \cup stale)
            IN /\ blobs' = listing
               /\ IF listing # <<>>
                  THEN bi' = 1 /\ pc' = "blob" /\ ci' = ci
                  ELSE /\ bi' = 0 /\ ci' = ci + 1
                       /\ pc' = IF ci < Len(containers) THEN "container" ELSE "summary"
    /\ UNCHANGED <<envVars, run, lastResult, raised, used, retention_days, now, accountVars,
                   containers, processed_count, deleted_count, error_count,
                   ageLog, deleteLog, listFailed, dbVars, dbLocals>>

\* BlobListBlobsFail, were the listing not inside the per-container try.
BlobListBlobsFailAborts ==
    /\ job = "blob" /\ pc = "container"
    /\ Raise("Exception")
    /\ UNCHANGED <<envVars, run, lastResult, used, retention_days, now, accountVars,
                   blobLocals, dbVars, dbLocals>>

\* Lines 63 and 93-96: the listing throws; counted, next container.
BlobListBlobsFail ==
    /\ job = "blob" /\ pc = "container"
    /\ error_count' = error_count + 1
    /\ listFailed' = listFailed \cup {containers[ci]}
    /\ ci' = ci + 1
    /\ pc' = IF ci < Len(containers) THEN "container" ELSE "summary"
    /\ UNCHANGED <<envVars, run, lastResult, raised, used, retention_days, now, accountVars,
                   containers, blobs, bi, processed_count, deleted_count,
                   ageLog, deleteLog, dbVars, dbLocals>>

\* Lines 66-79 for blob blobs[bi], read at clock value t: the new
\* processed_count, the logged age, and whether the blob is to be deleted.
Examine(t, eligible) ==
    LET b == blobs[bi]
        age_days == AgeDays(t, meta[b].last_modified)
    IN /\ t \in now..MaxNow
       /\ now' = t
       /\ processed_count' = processed_count + 1
       /\ ageLog' = [ageLog EXCEPT ![b] = age_days]
       /\ eligible = ShouldDelete(meta[b].tier, age_days, retention_days)

\* Lines 66-79 and 90-91.
BlobSkip ==
    /\ job = "blob" /\ pc = "blob"
    /\ \E t \in now..MaxNow : Examine(t, FALSE)
    /\ AfterBlob(bi)
    /\ UNCHANGED <<envVars, run, lastResult, raised, used, retention_days, accountVars,
                   containers, deleted_count, error_count, deleteLog, listFailed, dbVars, dbLocals>>

\* Lines 66-83.
BlobDeleteOk ==
    /\ job = "blob" /\ pc = "blob"
    /\ \E t \in now..MaxNow : Examine(t, TRUE)
    /\ blobs[bi] \in store
    /\ store' = store \ {blobs[bi]}
    /\ deleted_count' = deleted_count + 1
    /\ deleteLog' = [deleteLog EXCEPT ![blobs[bi]] = "deleted"]
    /\ AfterBlob(bi)
    /\ UNCHANGED <<envVars, run, lastResult, raised, used, retention_days, meta,
                   containers, error_count, listFailed, dbVars, dbLocals>>

\* BlobDeleteNotFound, were ResourceNotFoundError not caught.
BlobDeleteNotFoundAborts ==
    /\ job = "blob" /\ pc = "blob"
    /\ \E t \in now..MaxNow : Examine(t, TRUE)
    /\ blobs[bi] \notin store
    /\ deleteLog' = [deleteLog EXCEPT ![blobs[bi]] = "not_found"]
    /\ Raise("Exception")
    /\ UNCHANGED <<envVars, run, lastResult, used, retention_days, accountVars,
                   containers, ci, blobs, bi, deleted_count, error_count, listFailed,
                   dbVars, dbLocals>>

\* Lines 66-81 and 84-86: the blob is no longer there.
BlobDeleteNotFound ==
    /\ job = "blob" /\ pc = "blob"
    /\ \E t \in now..MaxNow : Examine(t, TRUE)
    /\ blobs[bi] \notin store
    /\ error_count' = error_count + 1
    /\ deleteLog' = [deleteLog EXCEPT ![blobs[bi]] = "not_found"]
    /\ AfterBlob(bi)
    /\ UNCHANGED <<envVars, run, lastResult, raised, used, retention_days, accountVars,
                   containers, deleted_count, listFailed, dbVars, dbLocals>>

\* Lines 66-81 and 87-89: the delete throws something else.
BlobDeleteError ==
    /\ job = "blob" /\ pc = "blob"
    /\ \E t \in now..MaxNow : Examine(t, TRUE)
    /\ error_count' = error_count + 1
    /\ deleteLog' = [deleteLog EXCEPT ![blobs[bi]] = "error"]
    /\ AfterBlob(bi)
    /\ UNCHANGED <<envVars, run, lastResult, raised, used, retention_days, accountVars,
                   containers, deleted_count, listFailed, dbVars, dbLocals>>

\* Lines 98-103.
BlobSummary ==
    /\ job = "blob" /\ pc = "summary"
    /\ pc' = "done"
    /\ UNCHANGED <<envVars, run, lastResult, raised, used, retention_days, now, accountVars, blobLocals, dbVars, dbLocals>>

\* Lines 9-13: the timer fires again; nothing of the previous invocation
\* is kept but the account's contents and the clock.
BlobTimer ==
    /\ job = "blob" /\ pc \in {"done", "raised"}
    /\ run < MaxRuns
    /\ run' = run + 1
    /\ lastResult' = pc
    /\ pc' = "start" /\ raised' = "none" /\ used' = <<>>
    /\ retention_days' = 0
    /\ containers' = FreshLocals.containers /\ ci' = FreshLocals.ci
    /\ blobs' = FreshLocals.blobs /\ bi' = FreshLocals.bi
    /\ processed_count' = FreshLocals.processed_count
    /\ deleted_count' = FreshLocals.deleted_count
    /\ error_count' = FreshLocals.error_count
    /\ ageLog' = FreshLocals.ageLog /\ deleteLog' = FreshLocals.deleteLog
    /\ listFailed' = FreshLocals.listFailed
    /\ UNCHANGED <<envVars, now, accountVars, dbVars, dbLocals>>

NextBlob ==
    \/ BlobConfigError \/ BlobConfigOk
    \/ BlobAccountOk \/ BlobAccountFail
    \/ BlobListContainersOk \/ BlobListContainersFail
    \/ BlobListBlobsOk \/ BlobListBlobsFail
    \/ BlobSkip \/ BlobDeleteOk \/ BlobDeleteNotFound \/ BlobDeleteError
    \/ BlobSummary \/ BlobTimer

(* ---------------------------- database job ---------------------------- *)
\* The retention setting as main() holds it: a string, converted at each use.
DbRetention == EnvGet("RETENTION_DAYS", DefaultRetention)
\* WHERE <column> < DATEADD(day, ?, GETDATE()) with ? = -int(retention_days):
\* the row is older than the cutoff now - retention days.
OlderThanCutoff(age, retention) == age > retention * TicksPerDay
\* The rows of table t the DELETE (or the count) statement selects.
Selected(t) ==
    {a \in RowAges : rows[t][a] = "live" /\ OlderThanCutoff(a, IntOf(DbRetention))}
\* The open transaction is undone: rows it deleted are back.
RolledBack == [t \in TableNames |-> [a \in RowAges |->
                 IF rows[t][a] = "pending" THEN "live" ELSE rows[t][a]]]
\* The open transaction is made durable.
Committed == [t \in TableNames |-> [a \in RowAges |->
                IF rows[t][a] = "pending" THEN "deleted" ELSE rows[t][a]]]
\* The position after the query at index ti: the next query, else the end.
AfterQuery ==
    /\ ti' = ti + 1
    /\ pc' = IF ti < Len(cleanup_queries) THEN "check" ELSE "finish"
Table == cleanup_queries[ti].table

\* Lines 13-22.
DbConfigError ==
    /\ job = "db" /\ pc = "start"
    /\ \/ ~Configured("SQL_SERVER")
       \/ ~Configured("SQL_DATABASE")
    /\ Raise("ValueError")
    /\ UNCHANGED <<envVars, run, lastResult, used, retention_days, now, accountVars, blobLocals,
                   dbVars, dbLocals>>

\* Lines 13-26.
DbConfigOk ==
    /\ job = "db" /\ pc = "start"
    /\ Configured("SQL_SERVER") /\ Configured("SQL_DATABASE")
    /\ pc' = "token"
    /\ UNCHANGED <<envVars, run, lastResult, raised, used, retention_days, now, accountVars,
                   blobLocals, dbVars, dbLocals>>

\* Lines 28-31: the credential and the access token, before any connection.
DbGetTokenOk ==
    /\ job = "db" /\ pc = "token"
    /\ used' = used \o <<"DefaultAzureCredential", "get_token">>
    /\ pc' = "connect_msi"
    /\ UNCHANGED <<envVars, run, lastResult, raised, retention_days, now, accountVars,
                   blobLocals, dbVars, dbLocals>>

\* Lines 29-30 and 124-128: get_token throws.
DbGetTokenFail ==
    /\ job = "db" /\ pc = "token"
    /\ used' = used \o <<"DefaultAzureCredential", "get_token">>
    /\ Raise("Exception")
    /\ UNCHANGED <<envVars, run, lastResult, retention_days, now, accountVars,
                   blobLocals, dbVars, dbLocals>>

\* Lines 34-51: Authentication=ActiveDirectoryMSI in the connection string.
DbConnectMsiOk ==
    /\ job = "db" /\ pc = "connect_msi"
    /\ used' = Append(used, "connect_msi")
    /\ conn' = "msi"
    /\ pc' = "test"
    /\ UNCHANGED <<envVars, run, lastResult, raised, retention_days, now, accountVars,
                   blobLocals, dbVars, ti, total_deleted, executed>>

\* DbConnectMsiFail, were there no fallback to the token connection.
DbConnectMsiFailAborts ==
    /\ job = "db" /\ pc = "connect_msi"
    /\ used' = Append(used, "connect_msi")
    /\ Raise("pyodbc.Error")
    /\ UNCHANGED <<envVars, run, lastResult, retention_days, now, accountVars,
                   blobLocals, dbVars, dbLocals>>

\* Lines 50 and 52-54.
DbConnectMsiFail ==
    /\ job = "db" /\ pc = "connect_msi"
    /\ used' = Append(used, "connect_msi")
    /\ pc' = "connect_token"
    /\ UNCHANGED <<envVars, run, lastResult, raised, retention_days, now, accountVars,
                   blobLocals, dbVars, dbLocals>>

\* Lines 55-66: the token as connection attribute 1256.
DbConnectTokenOk ==
    /\ job = "db" /\ pc = "connect_token"
    /\ used' = Append(used, "connect_token")
    /\ conn' = "token"
    /\ pc' = "test"
    /\ UNCHANGED <<envVars, run, lastResult, raised, retention_days, now, accountVars,
                   blobLocals, dbVars, ti, total_deleted, executed>>

\* Lines 65, 67-69 and 124-128.
DbConnectTokenFail ==
    /\ job = "db" /\ pc = "connect_token"
    /\ used' = Append(used, "connect_token")
    /\ Raise("pyodbc.Error")
    /\ UNCHANGED <<envVars, run, lastResult, retention_days, now, accountVars,
                   blobLocals, dbVars, dbLocals>>

\* Lines 71-77 and 82-93.
DbTestOk ==
    /\ job = "db" /\ pc = "test"
    /\ total_deleted' = 0
    /\ ti' = 1
    /\ pc' = IF Len(cleanup_queries) > 0 THEN "check" ELSE "finish"
    /\ UNCHANGED <<envVars, run, lastResult, raised, used, retention_days, now, accountVars,
                   blobLocals, dbVars, conn, executed>>

\* Lines 75 and 78-80, 124-128: SELECT @@VERSION throws.
DbTestFail ==
    /\ job = "db" /\ pc = "test"
    /\ Raise("Exception")
    /\ UNCHANGED <<envVars, run, lastResult, used, retention_days, now, accountVars,
                   blobLocals, dbVars, dbLocals>>

\* DbCheckAbsent, were the result of the catalog lookup ignored.
DbCheckAbsentProceeds ==
    /\ job = "db" /\ pc = "check"
    /\ ~exists[Table]
    /\ executed' = executed \cup {<<Table, "catalog", "ok">>}
    /\ pc' = "count"
    /\ UNCHANGED <<envVars, run, lastResult, raised, used, retention_days, now,
                   accountVars, blobLocals, dbVars, conn, ti, total_deleted>>

\* Lines 97-101: the catalog does not list the table: skipped.
DbCheckAbsent ==
    /\ job = "db" /\ pc = "check"
    /\ ~exists[Table]
    /\ executed' = executed \cup {<<Table, "catalog", "ok">>}
    /\ AfterQuery
    /\ UNCHANGED <<envVars, run, lastResult, raised, used, retention_days, now, accountVars,
                   blobLocals, dbVars, conn, total_deleted>>

\* Lines 97-99: the catalog lists the table.
DbCheckPresent ==
    /\ job = "db" /\ pc = "check"
    /\ exists[Table]
    /\ executed' = executed \cup {<<Table, "catalog", "ok">>}
    /\ pc' = "count"
    /\ UNCHANGED <<envVars, run, lastResult, raised, used, retention_days, now, accountVars,
                   blobLocals, dbVars, conn, ti, total_deleted>>

\* Lines 98 and 115-116: the catalog query throws.
DbCheckFail ==
    /\ job = "db" /\ pc = "check"
    /\ executed' = executed \cup {<<Table, "catalog", "error">>}
    /\ pc' = "rollback"
    /\ UNCHANGED <<envVars, run, lastResult, raised, used, retention_days, now, accountVars,
                   blobLocals, dbVars, conn, ti, total_deleted>>

\* Lines 104-107.
DbCountOk ==
    /\ job = "db" /\ pc = "count"
    /\ IsInt(DbRetention)
    /\ executed' = executed \cup {<<Table, "count", "ok">>}
    /\ pc' = "delete"
    /\ UNCHANGED <<envVars, run, lastResult, raised, used, retention_days, now, accountVars,
                   blobLocals, dbVars, conn, ti, total_deleted>>

\* Lines 105 and 115-116: int(retention_days) raises ValueError, or the
\* count query throws.
DbCountFail ==
    /\ job = "db" /\ pc = "count"
    /\ \/ ~IsInt(DbRetention) /\ UNCHANGED executed
       \/ IsInt(DbRetention) /\ executed' = executed \cup {<<Table, "count", "error">>}
    /\ pc' = "rollback"
    /\ UNCHANGED <<envVars, run, lastResult, raised, used, retention_days, now, accountVars,
                   blobLocals, dbVars, conn, ti, total_deleted>>

\* Lines 110-113: the DELETE runs in the open transaction; its row count
\* is added to total_deleted.
DbDeleteOk ==
    /\ job = "db" /\ pc = "delete"
    /\ executed' = executed \cup {<<Table, "delete", "ok">>}
    /\ rows' = [rows EXCEPT ![Table] =
                  [a \in RowAges |-> IF a \in Selected(Table) THEN "pending" ELSE @[a]]]
    /\ total_deleted' = total_deleted + Cardinality(Selected(Table))
    /\ pc' = "commit"
    /\ UNCHANGED <<envVars, run, lastResult, raised, used, retention_days, now, accountVars,
                   blobLocals, exists, conn, ti>>

\* Lines 110 and 115-116: the DELETE throws; the statement removed nothing.
DbDeleteFail ==
    /\ job = "db" /\ pc = "delete"
    /\ executed' = executed \cup {<<Table, "delete", "error">>}
    /\ pc' = "rollback"
    /\ UNCHANGED <<envVars, run, lastResult, raised, used, retention_days, now, accountVars,
                   blobLocals, dbVars, conn, ti, total_deleted>>

\* Line 114.
DbCommitOk ==
    /\ job = "db" /\ pc = "commit"
    /\ rows' = Committed
    /\ AfterQuery
    /\ UNCHANGED <<envVars, run, lastResult, raised, used, retention_days, now, accountVars,
                   blobLocals, exists, conn, total_deleted, executed>>

\* Lines 114-116: conn.commit() throws.
DbCommitFail ==
    /\ job = "db" /\ pc = "commit"
    /\ pc' = "rollback"
    /\ UNCHANGED <<envVars, run, lastResult, raised, used, retention_days, now, accountVars,
                   blobLocals, dbVars, dbLocals>>

\* Line 117, then the next query.
DbRollbackOk ==
    /\ job = "db" /\ pc = "rollback"
    /\ rows' = RolledBack
    /\ AfterQuery
    /\ UNCHANGED <<envVars, run, lastResult, raised, used, retention_days, now, accountVars,
                   blobLocals, exists, conn, total_deleted, executed>>

\* Lines 117 and 124-128: conn.rollback() throws inside the handler, so the
\* exception leaves the loop; the transaction is lost with the connection.
DbRollbackFail ==
    /\ job = "db" /\ pc = "rollback"
    /\ rows' = RolledBack
    /\ Raise("Exception")
    /\ UNCHANGED <<envVars, run, lastResult, used, retention_days, now, accountVars,
                   blobLocals, exists, dbLocals>>

\* Line 119 and the end of `with conn`, which commits.
DbFinishOk ==
    /\ job = "db" /\ pc = "finish"
    /\ rows' = Committed
    /\ pc' = "done"
    /\ UNCHANGED <<envVars, run, lastResult, raised, used, retention_days, now, accountVars,
                   blobLocals, exists, dbLocals>>

\* Lines 71 and 124-128: the commit at the end of `with conn` throws.
DbFinishFail ==
    /\ job = "db" /\ pc = "finish"
    /\ rows' = RolledBack
    /\ Raise("Exception")
    /\ UNCHANGED <<envVars, run, lastResult, used, retention_days, now, accountVars,
                   blobLocals, exists, dbLocals>>

NextDb ==
    \/ DbConfigError \/ DbConfigOk
    \/ DbGetTokenOk \/ DbGetTokenFail
    \/ DbConnectMsiOk \/ DbConnectMsiFail
    \/ DbConnectTokenOk \/ DbConnectTokenFail
    \/ DbTestOk \/ DbTestFail
    \/ DbCheckAbsent \/ DbCheckPresent \/ DbCheckFail
    \/ DbCountOk \/ DbCountFail
    \/ DbDeleteOk \/ DbDeleteFail
    \/ DbCommitOk \/ DbCommitFail
    \/ DbRollbackOk \/ DbRollbackFail
    \/ DbFinishOk \/ DbFinishFail

Next == NextBlob \/ NextDb

Spec == Init /\ [][Next]_vars
(* ------------------------------- claims ------------------------------- *)
Processed(b) == ageLog[b] # NoAge
DeleteIssued(b) == deleteLog[b] # "none"
\* Blob b is examined in this step, at clock value now'.
ExaminedNow(b) == ageLog[b] = NoAge /\ ageLog'[b] # NoAge
ListObtained == containers # <<>>

\* C1: for every blob the blob job enumerates, a delete call is issued iff
\* the blob's tier is Archive and age_days > retention_days, age_days being
\* the floor in whole days of now - last_modified at the moment the blob is
\* examined; a blob that is not Archive or not older than that gets no
\* delete call and is still in the account afterwards.
C1_DeleteIffEligible ==
    /\ [](job = "blob" =>
            \A b \in Blobs :
              /\ ~Processed(b) => ~DeleteIssued(b)
              /\ Processed(b) =>
                   /\ DeleteIssued(b) <=>
                        (meta[b].tier = "Archive" /\ ageLog[b] > retention_days)
                   /\ ~DeleteIssued(b) => b \in store)
    /\ [][job = "blob" =>
            \A b \in Blobs :
              /\ ExaminedNow(b) =>
                   /\ ageLog'[b] * TicksPerDay <= now' - meta[b].last_modified
                   /\ now' - meta[b].last_modified < (ageLog'[b] + 1) * TicksPerDay
              /\ (b \in store /\ b \notin store') =>
                   /\ ExaminedNow(b)
                   /\ meta[b].tier = "Archive" /\ ageLog'[b] > retention_days]_vars

\* A finished run that deleted an old Archive blob, skipped an Archive blob
\* whose age in days equals the retention, and skipped an old Hot blob.
C1_Witness ==
    /\ job = "blob" /\ pc = "done" /\ retention_days = 1
    /\ meta[1].tier = "Archive" /\ ageLog[1] = 2 /\ deleteLog[1] = "deleted"
    /\ meta[2].tier = "Archive" /\ ageLog[2] = 1 /\ deleteLog[2] = "none"
    /\ meta[3].tier = "Hot" /\ ageLog[3] = 2 /\ deleteLog[3] = "none"
    /\ store = {2, 3}

\* C2: once the blob job has the container list, no per-item failure aborts
\* the run: a failed delete (not-found included) adds one to error_count and
\* nothing to deleted_count, a failed blob listing adds one to error_count,
\* the blobs and containers after the failure are still processed, and the
\* run reaches its summary without raising.
C2_PerItemFaultIsolation ==
    job = "blob" =>
      /\ pc = "raised" => ~ListObtained
      /\ ListObtained =>
           /\ error_count =
                Cardinality({b \in Blobs : deleteLog[b] \in {"not_found", "error"}})
                  + Cardinality(listFailed)
           /\ deleted_count = Cardinality({b \in Blobs : deleteLog[b] = "deleted"})
           /\ processed_count = Cardinality({b \in Blobs : Processed(b)})
           /\ pc \in {"container", "blob", "summary", "done"}
           /\ pc \in {"container", "blob", "summary"} => ENABLED Next
           /\ pc \in {"summary", "done"} =>
                /\ ci = Len(containers) + 1
                /\ \A b \in store : Processed(b) \/ ContainerOf(b) \in listFailed

\* A finished run in which the delete of blob 1 failed, blob 2 of the same
\* container was deleted after it, and the listing of container 2 failed.
C2_Witness ==
    /\ job = "blob" /\ pc = "done" /\ run = 1
    /\ deleteLog[1] = "error" /\ deleteLog[2] = "deleted"
    /\ listFailed = {2}
    /\ error_count = 2 /\ deleted_count = 1 /\ processed_count = 2

\* C8 as claimed: a run of the blob job that follows a completed run and
\* has the container list never raises and leaves the account's contents
\* unchanged, and a blob the first run deleted gets at most a not-found
\* delete.
C8_Original ==
    (job = "blob" /\ run >= 2 /\ lastResult = "done" /\ ListObtained) =>
      /\ raised = "none"
      /\ \A b \in Blobs : deleteLog[b] \in {"none", "not_found"}

\* C8 as amended: a later run of the blob job that has the container list
\* reaches its summary without raising; every blob that was already deleted
\* when the run began and is still enumerated gets a delete call that fails
\* (not-found or another error), which adds to error_count and not to
\* deleted_count; the run removes only blobs that were still present and are
\* eligible (Archive, age in whole days above the retention).
C8_RerunSafe ==
    (job = "blob" /\ run >= 2) =>
      /\ pc = "raised" => ~ListObtained
      /\ \A b \in Blobs :
           /\ (Processed(b) /\ b \notin store /\ deleteLog[b] # "deleted") =>
                deleteLog[b] \in {"not_found", "error"}
           /\ deleteLog[b] = "not_found" => b \notin store
           /\ deleteLog[b] = "deleted" =>
                (meta[b].tier = "Archive" /\ ageLog[b] > retention_days)
      /\ ListObtained =>
           /\ error_count >=
                Cardinality({b \in Blobs : deleteLog[b] \in {"not_found", "error"}})
           /\ deleted_count = Cardinality({b \in Blobs : deleteLog[b] = "deleted"})

\* A finished second run: blob 1, deleted by the first run, was enumerated
\* again and its delete was not found; blob 2, which the first run left
\* behind, was deleted now.
C8_Witness ==
    /\ job = "blob" /\ run = 2 /\ pc = "done"
    /\ deleteLog[1] = "not_found" /\ deleteLog[2] = "deleted"
    /\ error_count = 1 /\ deleted_count = 1

\* C9 as claimed: every Archive blob strictly older than now - retention_days
\* has a delete issued when it is examined.
C9_Original ==
    [][job = "blob" =>
         \A b \in Blobs :
           (/\ ExaminedNow(b)
            /\ meta[b].tier = "Archive"
            /\ now' - meta[b].last_modified > retention_days * TicksPerDay)
             => deleteLog'[b] # "none"]_vars

\* C9 as amended: an Archive blob has a delete issued exactly when its age
\* in whole days exceeds retention_days, that is when it is at least
\* retention_days + 1 full days old; with retention_days = 0, every Archive
\* blob at least one full day old, and none younger than a day.
C9_WholeDayThreshold ==
    [][job = "blob" =>
         \A b \in Blobs :
           (ExaminedNow(b) /\ meta[b].tier = "Archive") =>
             (deleteLog'[b] # "none" <=>
                now' - meta[b].last_modified >= (retention_days + 1) * TicksPerDay)]_vars

\* With a retention of 0 days: Archive blob 1, one tick (less than a day)
\* old, was skipped; Archive blob 2, a full day old, was deleted.
C9_Witness ==
    /\ job = "blob" /\ pc = "done" /\ retention_days = 0
    /\ "RETENTION_DAYS" \in DOMAIN environ /\ environ["RETENTION_DAYS"] = "0"
    /\ meta[1].tier = "Archive" /\ meta[1].last_modified = Now0 - 1
    /\ ageLog[1] = 0 /\ deleteLog[1] = "none" /\ 1 \in store
    /\ meta[2].tier = "Archive" /\ ageLog[2] = 1 /\ deleteLog[2] = "deleted"
Calls == {used[i] : i \in DOMAIN used}
Attempted(t, kind) == \E o \in {"ok", "error"} : <<t, kind, o>> \in executed
RowsIn(t, state) == {a \in RowAges : rows[t][a] = state}
BothConnectsFailed == conn = "none" /\ "connect_token" \in Calls
AllTablesProcessed == \A t \in TableNames : Attempted(t, "catalog")

\* C3 as claimed: if the DELETE on Logs throws, no row of Logs is removed,
\* the run does not raise, and it ends only after AuditTrail was attempted.
C3_Claim ==
    (job = "db" /\ <<"Logs", "delete", "error">> \in executed) =>
      /\ RowsIn("Logs", "pending") = {} /\ RowsIn("Logs", "deleted") = {}
      /\ raised = "none"
      /\ pc = "done" => Attempted("AuditTrail", "catalog")

\* C4: for every target table that the schema catalog reports absent, the
\* database job executes no count and no delete statement against it, the
\* skip is no error (no rollback, no raise), and the run goes on with the
\* next table.
C4_AbsentTableSkipped ==
    /\ [](job = "db" =>
            \A t \in TableNames :
              ~exists[t] =>
                /\ ~Attempted(t, "count") /\ ~Attempted(t, "delete")
                /\ \A a \in RowAges : rows[t][a] = "absent")
    /\ [][(/\ job = "db" /\ pc = "check" /\ ~exists[Table]
           /\ <<Table, "catalog", "ok">> \in executed') =>
            /\ raised' = "none"
            /\ ti' = ti + 1
            /\ pc' = (IF ti < Len(cleanup_queries) THEN "check" ELSE "finish")
            /\ rows' = rows /\ total_deleted' = total_deleted]_vars

\* A finished run that skipped the absent table Logs and then deleted from
\* AuditTrail.
C4_Witness ==
    /\ job = "db" /\ pc = "done"
    /\ ~exists["Logs"] /\ <<"Logs", "catalog", "ok">> \in executed
    /\ <<"AuditTrail", "delete", "ok">> \in executed
    /\ RowsIn("AuditTrail", "deleted") # {}

\* C5: when a required setting is unset or empty (STORAGE_ACCOUNT_NAME for
\* the blob job, SQL_SERVER or SQL_DATABASE for the database job) the run
\* raises a configuration error and has used no collaborator: no credential,
\* no token, no connection, nothing listed, nothing deleted.
C5_ConfigErrorBeforeAnyWork ==
    LET missing(k) == k \notin DOMAIN environ \/ environ[k] = ""
        lacking == IF job = "blob" THEN missing("STORAGE_ACCOUNT_NAME")
                   ELSE missing("SQL_SERVER") \/ missing("SQL_DATABASE")
    IN (lacking /\ pc # "start") =>
         /\ pc = "raised" /\ raised = "ValueError"
         /\ used = <<>> /\ conn = "none" /\ executed = {}
         /\ containers = <<>> /\ processed_count = 0 /\ deleted_count = 0
         /\ \A b \in Blobs : deleteLog[b] = "none"
         /\ job = "blob" => store = Blobs
         /\ \A t \in TableNames : RowsIn(t, "pending") = {} /\ RowsIn(t, "deleted") = {}

\* The database job has raised its configuration error: SQL_SERVER is set,
\* SQL_DATABASE is not.
C5_Witness ==
    /\ job = "db" /\ pc = "raised" /\ raised = "ValueError"
    /\ "SQL_SERVER" \in DOMAIN environ /\ environ["SQL_SERVER"] = "name"
    /\ "SQL_DATABASE" \notin DOMAIN environ
    /\ used = <<>>

\* C6 as claimed: the database job acquires the explicit token only after
\* the identity-string connection attempt, and not at all on a run whose
\* identity-string attempt succeeds.
C6_Claim ==
    job = "db" =>
      /\ \A i \in DOMAIN used :
           used[i] = "get_token" => \E j \in 1..(i - 1) : used[j] = "connect_msi"
      /\ conn = "msi" => "get_token" \notin Calls

C10_Claim ==
    (job = "db" /\ pc = "done") =>
      total_deleted =
        Cardinality({<<t, a>> \in TableNames \X RowAges : rows[t][a] = "deleted"})
====
